---- MODULE Spec2Model ----
(***************************************************************************)
(* Model of the archviz_app client / orchestrator / GUI glue.              *)
(*                                                                         *)
(*  - SpecExtract : the JSON walk _extract_images_b64                      *)
(*  - SpecClient  : GeminiClient.generate_image and its transport paths    *)
(*  - SpecRender  : RenderService.render_all run by a Worker, delivered    *)
(*                  to MainWindow._on_done / _on_error                     *)
(***************************************************************************)
EXTENDS Integers, Sequences, FiniteSets, Bags, TLC

VARIABLES
    doc,        \* SpecExtract: the parsed JSON value handed to _extract_images_b64
    xout,       \* SpecExtract: the list _extract_images_b64 returned
    xpc,        \* SpecExtract: "start" | "done"
    sdkImport,  \* runtime: outcome of `from google import genai`
    typesOk,    \* runtime: `from google.genai import types` works
    pilOk,      \* runtime: PIL can open an image attachment
    args,       \* generate_image arguments: model, prompt, inline_files, fallback_imagen_model
    cpc,        \* position inside generate_image
    contents,   \* _generate_image_sdk: the contents list being sent
    sdkRaw,     \* _generate_image_sdk: resp returned by generate_content
    restVia,    \* who called _generate_image_rest: "outer" (line 66) | "inner" (line 109)
    calls,      \* client methods invoked so far, with their arguments
    requests,   \* network requests issued so far, with their outcomes
    sdkRet,     \* what _generate_image_sdk returned to generate_image
    restRet,    \* what _generate_image_rest returned or raised
    restParsed, \* _generate_image_rest handed the body to _extract_images_b64
    result,     \* what generate_image returned or raised
    job,        \* the RenderJob built from the form: exterior angles, rooms
    apiKey,     \* the API key field of the window
    clicked,    \* 'Generate renders' has been clicked
    rpc,        \* position inside render_all
    scope,      \* render_all: 0 while in the exterior loop, r in the loop of room r
    ai,         \* render_all: index of the current angle within the scope
    resp,       \* render_all: images_b64 of the response being handled
    genCalls,   \* generate_image calls issued by render_all, in order
    responses,  \* images_b64 of each response received, in order
    handled,    \* number of calls whose output has been written
    dirs,       \* directories that exist under output_dir
    fs,         \* files that exist under output_dir
    writes,     \* paths written, in order
    written,    \* render_all: the local list `written`
    renderRet,  \* what render_all returned or raised
    worker,     \* the Worker thread: "none" | "running" | "finished"
    signals,    \* signals emitted by the worker and not yet delivered
    generate_btn, \* the 'Generate renders' button is enabled
    log,        \* lines appended to the log pane
    boxes,      \* message boxes shown
    workers,    \* SpecGui: every Worker created so far: what it runs, whether it still runs
    workerRef,  \* SpecGui: MainWindow._worker, index into workers (0: None)
    pending,    \* SpecGui: signals emitted by workers and not yet delivered to the window
    list_models_btn, \* SpecGui: the 'List available models' button is enabled
    clicks,     \* SpecGui: number of button clicks so far
    crashed,    \* SpecGui: the process was aborted by Qt
    safeIn,     \* SpecSafe: the string given to _safe
    safeOnce,   \* SpecSafe: _safe(safeIn)
    safeTwice,  \* SpecSafe: _safe(_safe(safeIn))
    spc,        \* SpecSafe: how many times _safe has been applied
    room_list,  \* SpecInterior: InteriorTab.room_list, the item texts in row order
    current,    \* SpecInterior: row of room_list.currentItem() (0: none)
    _rooms_state, \* SpecInterior: InteriorTab._rooms_state
    editor,     \* SpecInterior: what the RoomEditor shows
    entered,    \* SpecInterior: per row, what the user last typed while it was selected
    reported,   \* SpecInterior: what the last data() returned
    ops         \* SpecInterior: the user operations so far, by name

xvars == <<doc, xout, xpc>>
cvars == <<sdkImport, typesOk, pilOk, args, cpc, contents, sdkRaw, restVia, calls,
           requests, sdkRet, restRet, restParsed, result>>
rvars == <<job, apiKey, clicked, rpc, scope, ai, resp, genCalls, responses, handled, dirs,
           fs, writes, written, renderRet, worker, signals, generate_btn, log, boxes>>
gvars == <<workers, workerRef, pending, list_models_btn, clicks, crashed>>
svars == <<safeIn, safeOnce, safeTwice, spc>>
ivars == <<room_list, current, _rooms_state, editor, entered, reported, ops>>
nvars == <<gvars, svars, ivars>>
vars == <<xvars, cvars, rvars, nvars>>

IdleGui ==
    /\ workers = <<>>
    /\ workerRef = 0
    /\ pending = <<>>
    /\ list_models_btn = TRUE
    /\ clicks = 0
    /\ crashed = FALSE

IdleSafe ==
    /\ safeIn = <<>>
    /\ safeOnce = <<>>
    /\ safeTwice = <<>>
    /\ spc = 0

IdleInterior ==
    /\ room_list = <<>>
    /\ current = 0
    /\ _rooms_state = <<>>
    /\ editor = <<>>
    /\ entered = <<>>
    /\ reported = [valid |-> FALSE, rooms |-> <<>>]
    /\ ops = <<>>

\* the state the specifications of the client and of one render run leave alone
IdleNew == IdleGui /\ IdleSafe /\ IdleInterior

(***************************************************************************)
(* JSON values.  A string is a sequence of tokens, so that startswith is a *)
(* prefix test; an object is the ordered list of its members (a Python     *)
(* dict keeps insertion order and its keys are distinct).                  *)
(***************************************************************************)
JNull == [t |-> "null", v |-> <<>>]
JNum == [t |-> "num", v |-> <<>>]
JStr(s) == [t |-> "str", v |-> s]
JArr(items) == [t |-> "arr", v |-> items]
JObj(members) == [t |-> "obj", v |-> members]
Member(k, val) == [k |-> k, val |-> val]

\* the literal "image/" of mime.startswith("image/")
ImagePrefix == <<"image", "/">>

\* str.startswith
StartsWith(s, p) == Len(s) >= Len(p) /\ SubSeq(s, 1, Len(p)) = p

\* Python truthiness of a JSON value, as used by `or`
Truthy(x) ==
    CASE x.t = "null" -> FALSE
      [] x.t = "num" -> TRUE
      [] OTHER -> x.v # <<>>

\* a or b
PyOr(a, b) == IF Truthy(a) THEN a ELSE b

\* dict.get(key): the member's value, None when the key is absent
DictGet(node, key) ==
    IF \E i \in 1..Len(node.v) : node.v[i].k = key
    THEN node.v[CHOOSE i \in 1..Len(node.v) : node.v[i].k = key].val
    ELSE JNull

\* the test of walk's dict branch: the list of data appended for this node
OwnImage(node) ==
    LET inline == PyOr(DictGet(node, "inline_data"), DictGet(node, "inlineData"))
    IN  IF inline.t = "obj"
        THEN LET mime == PyOr(PyOr(DictGet(inline, "mime_type"), DictGet(inline, "mimeType")), JStr(<<>>))
                 b64 == DictGet(inline, "data")
             IN  IF mime.t = "str" /\ StartsWith(mime.v, ImagePrefix)
                    /\ b64.t = "str" /\ b64.v # <<>>
                 THEN <<b64.v>>
                 ELSE <<>>
        ELSE <<>>

RECURSIVE walk(_), walkValues(_), walkItems(_)
\* for v in node.values(): walk(v)
walkValues(members) ==
    IF members = <<>> THEN <<>>
    ELSE walk(Head(members).val) \o walkValues(Tail(members))

\* for it in node: walk(it)
walkItems(items) ==
    IF items = <<>> THEN <<>>
    ELSE walk(Head(items)) \o walkItems(Tail(items))

walk(node) ==
    CASE node.t = "obj" -> OwnImage(node) \o walkValues(node.v)
      [] node.t = "arr" -> walkItems(node.v)
      [] OTHER -> <<>>

_extract_images_b64(data) == walk(data)

(***************************************************************************)
(* Bounded set of JSON documents for SpecExtract.                          *)
(***************************************************************************)
MaxItems == 2      \* longest array generated

JAbsent == [t |-> "absent", v |-> <<>>]
Opt(k, x) == IF x.t = "absent" THEN <<>> ELSE <<Member(k, x)>>

MImg == <<"image", "/", "png">>
MTxt == <<"text", "/", "plain">>
MBare == <<"image">>
DataA == <<"A">>
DataB == <<"B">>
DataC == <<"C">>

InlineKeys == {"inline_data", "inlineData"}
MimeKeys == {"mime_type", "mimeType"}

\* candidate values of an inline_data / inlineData member
InlineObjs ==
    { JObj(Opt("mime_type", mt) \o Opt("mimeType", mc) \o Opt("data", d)) :
        mt \in {JAbsent, JStr(MImg), JStr(MTxt), JStr(MBare), JStr(<<>>), JNum},
        mc \in {JAbsent, JStr(MImg), JStr(MTxt)},
        d \in {JAbsent, JStr(<<>>), JStr(DataA), JNum} }

Img(mk, d) == JObj(<<Member(mk, JStr(MImg)), Member("data", JStr(d))>>)

SmallInline ==
    { Img("mime_type", DataA), Img("mimeType", DataB),
      JObj(<<Member("mime_type", JStr(MTxt)), Member("data", JStr(DataC))>>),
      JObj(<<>>), JStr(DataC), JAbsent }

\* objects carrying one or both casings of the inline-data key
Parts ==
    { JObj(Opt(k, a)) : k \in InlineKeys, a \in InlineObjs \cup {JStr(DataA), JNull} }
    \cup { JObj(Opt("inline_data", a) \o Opt("inlineData", b)) : a, b \in SmallInline }
    \cup { JObj(Opt("inlineData", a) \o Opt("inline_data", b)) : a, b \in SmallInline }

SmallParts ==
    { JObj(<<Member("text", JStr(DataC))>>),
      JObj(<<Member("inline_data", Img("mime_type", DataA))>>),
      JObj(<<Member("inlineData", Img("mimeType", DataB))>>),
      JObj(<<Member("inline_data", JObj(<<Member("mime_type", JStr(MTxt)), Member("data", JStr(DataC))>>))>>) }

Arrays == UNION { [1..n -> SmallParts] : n \in 0..MaxItems }

\* objects whose inline-data member has sibling members holding further parts,
\* and inline-data values that themselves nest a part
Nested ==
    { JObj(Opt("content", c) \o Opt(k, a) \o Opt("parts", JArr(ps))) :
        c \in SmallParts \cup {JAbsent}, k \in InlineKeys,
        a \in {Img("mimeType", DataC), JAbsent}, ps \in Arrays }
    \cup { JObj(<<Member(k, JObj(<<Member("mime_type", JStr(MImg)), Member("nested", p),
                                   Member("data", JStr(DataC))>>))>>) :
             k \in InlineKeys, p \in SmallParts }

Docs == Parts \cup Nested \cup { JArr(ps) : ps \in Arrays } \cup {JNull, JStr(DataA)}

(***************************************************************************)
(* The entries the documentation promises: every member keyed inline_data  *)
(* or inlineData whose value is an object with an image mime type and a    *)
(* non-empty string data, listed at the place its data stands in the       *)
(* document.                                                               *)
(***************************************************************************)
IsImageMime(x) == x.t = "str" /\ StartsWith(x.v, ImagePrefix)

Qualifies(val) ==
    /\ val.t = "obj"
    /\ \E mk \in MimeKeys : IsImageMime(DictGet(val, mk))
    /\ DictGet(val, "data").t = "str"
    /\ DictGet(val, "data").v # <<>>

RECURSIVE DocOrderNode(_, _), DocOrderMembers(_, _), DocOrderItems(_)
DocOrderMembers(members, emit) ==
    IF members = <<>> THEN <<>>
    ELSE LET m == Head(members)
         IN  (IF emit /\ m.k = "data" THEN <<m.val.v>> ELSE <<>>)
             \o DocOrderNode(m.val, m.k \in InlineKeys /\ Qualifies(m.val))
             \o DocOrderMembers(Tail(members), emit)

DocOrderItems(items) ==
    IF items = <<>> THEN <<>>
    ELSE DocOrderNode(Head(items), FALSE) \o DocOrderItems(Tail(items))

DocOrderNode(node, emit) ==
    CASE node.t = "obj" -> DocOrderMembers(node.v, emit)
      [] node.t = "arr" -> DocOrderItems(node.v)
      [] OTHER -> <<>>

QualifyingData(d) == DocOrderNode(d, FALSE)

Range(s) == { s[i] : i \in DOMAIN s }
BagOf(s) == [x \in Range(s) |-> Cardinality({ i \in DOMAIN s : s[i] = x })]

(***************************************************************************)
(* GeminiClient                                                            *)
(***************************************************************************)
MaxFiles == 2      \* longest inline_files list

\* value returned or raised by a client method
NoRet == [kind |-> "none", exc |-> "", msg |-> <<>>, images |-> <<>>, raw |-> JNull]
GeminiResponse(images_b64, raw) ==
    [kind |-> "response", exc |-> "", msg |-> <<>>, images |-> images_b64, raw |-> raw]
Raised(exc, msg) ==
    [kind |-> "error", exc |-> exc, msg |-> msg, images |-> <<>>, raw |-> JNull]

\* the literal message of the RuntimeError raised for a 404, fragment by fragment
Remediation404 ==
    << "Gemini returned 404 (model not found or endpoint not supported). ",
       "Fix by choosing a model name that exists for your API key. ",
       "Try the app button 'List available models' or call: ",
       "https://generativelanguage.googleapis.com/v1beta/models?key=YOUR_KEY" >>

\* the model-selection remediation text looked for in an error message
RemediationText == "Fix by choosing a model name that exists for your API key. "

\* str(e) for the exceptions raised by requests or the SDK
GenericMsg(exc) == <<exc>>

\* `except ModuleNotFoundError` of generate_image
CaughtMut(exc) == FALSE
Caught(exc) == exc = "ModuleNotFoundError"

\* `if r.status_code == 404`
Is404Mut(status) == status = 400
Is404(status) == status = 404

\* r.raise_for_status() raises for 4xx and 5xx
RaisesForStatus(status) == status >= 400 /\ status < 600

\* model if model.startswith("models/") else f"models/{model}"
ModelSdk(model) == IF StartsWith(model, <<"models/">>) THEN model ELSE <<"models/">> \o model

\* base64.b64encode(data).decode("utf-8")
B64Encode(b) == <<"b64">> \o b

\* the typed scan of resp.candidates[*].content.parts: parts with non-empty bytes
RECURSIVE TypedImages(_)
TypedImages(parts) ==
    IF parts = <<>> THEN <<>>
    ELSE (IF Head(parts) # <<>> THEN <<B64Encode(Head(parts))>> ELSE <<>>)
         \o TypedImages(Tail(parts))

\* how _generate_image_sdk attaches one inline file
AttachKind(f) ==
    IF StartsWith(f.mime_type, ImagePrefix) /\ pilOk THEN "pil"
    ELSE IF typesOk THEN "part"
    ELSE "rest"

\* the parts list of the REST payload: the prompt, then one inline_data part per file
RestParts(prompt, files) ==
    <<[text |-> prompt, inline_data |-> JNull]>>
    \o [i \in 1..Len(files) |->
          [text |-> <<>>,
           inline_data |-> JObj(<<Member("mime_type", JStr(files[i].mime_type)),
                                  Member("data", JStr(files[i].data_b64))>>)]]

Request(api, model, prompt, files, payload, config, timeout, ok, status) ==
    [api |-> api, model |-> model, prompt |-> prompt, files |-> files,
     payload |-> payload, config |-> config, timeout |-> timeout, ok |-> ok,
     status |-> status]

Call(fn, model, prompt, files) ==
    [fn |-> fn, model |-> model, prompt |-> prompt, files |-> files]

\* inputs and outcomes
Models == { <<"gemini">>, <<"models/", "gemini">> }
Prompt == <<"PROMPT">>
FallbackModels == { <<>>, <<"imagen">> }      \* <<>>: None
Files == { [mime_type |-> MImg, data_b64 |-> <<"f1">>],
           [mime_type |-> <<"application", "/", "pdf">>, data_b64 |-> <<"f2">>] }
FileLists == UNION { [1..n -> Files] : n \in 0..MaxFiles }

ImageDoc == JObj(<<Member("candidates",
               JArr(<<JObj(<<Member("inlineData", Img("mimeType", DataB))>>)>>))>>)
SdkResponses ==
    { [parts |-> <<>>, raw |-> JObj(<<>>)],
      [parts |-> <<DataA>>, raw |-> JObj(<<>>)],
      [parts |-> << <<>> >>, raw |-> ImageDoc] }
RestStatuses == {200, 404, 500}
\* JAbsent: a body that is not JSON; status 0: requests.post itself raised
RestOutcomes ==
    { [status |-> st, body |-> b] : st \in RestStatuses, b \in {JObj(<<>>), ImageDoc, JAbsent} }
    \cup { [status |-> 0, body |-> JAbsent] }

DefaultTimeout == 120

NoOutput == [kind |-> "none", msg |-> <<>>, written |-> <<>>]
RenderOutput(written_files) == [kind |-> "output", msg |-> <<>>, written |-> written_files]
RenderRaised(msg) == [kind |-> "error", msg |-> msg, written |-> <<>>]

IdleRender ==
    /\ job = [exterior |-> <<>>, rooms |-> <<>>]
    /\ apiKey = <<>>
    /\ clicked = FALSE
    /\ rpc = "idle"
    /\ scope = 0
    /\ ai = 1
    /\ resp = <<>>
    /\ genCalls = <<>>
    /\ responses = <<>>
    /\ handled = 0
    /\ dirs = {}
    /\ fs = {}
    /\ writes = <<>>
    /\ written = <<>>
    /\ renderRet = NoOutput
    /\ worker = "none"
    /\ signals = <<>>
    /\ generate_btn = TRUE
    /\ log = <<>>
    /\ boxes = <<>>

IdleClient ==
    /\ sdkImport = "ok"
    /\ typesOk = TRUE
    /\ pilOk = TRUE
    /\ args = [model |-> <<>>, prompt |-> <<>>, inline_files |-> <<>>, fallback |-> <<>>]
    /\ cpc = "idle"
    /\ contents = <<>>
    /\ sdkRaw = [parts |-> <<>>, raw |-> JNull]
    /\ restVia = "none"
    /\ calls = <<>>
    /\ requests = <<>>
    /\ sdkRet = NoRet
    /\ restRet = NoRet
    /\ restParsed = FALSE
    /\ result = NoRet

InitClient ==
    /\ sdkImport \in {"ok", "ModuleNotFoundError"}
    /\ typesOk \in BOOLEAN
    /\ pilOk \in BOOLEAN
    /\ args \in [model : Models, prompt : {Prompt}, inline_files : FileLists,
                 fallback : FallbackModels]
    /\ cpc = "call"
    /\ contents = <<>>
    /\ sdkRaw = [parts |-> <<>>, raw |-> JNull]
    /\ restVia = "none"
    /\ calls = <<>>
    /\ requests = <<>>
    /\ sdkRet = NoRet
    /\ restRet = NoRet
    /\ restParsed = FALSE
    /\ result = NoRet
    /\ doc = JNull /\ xout = <<>> /\ xpc = "idle"
    /\ IdleRender
    /\ IdleNew

\* an exception raised inside the try block of generate_image (lines 58-66)
RaiseInTry(exc, msg) ==
    IF Caught(exc)
    THEN /\ cpc' = "rest"
         /\ restVia' = "outer"
         /\ calls' = Append(calls, Call("_generate_image_rest", args.model, args.prompt,
                                        args.inline_files))
         /\ UNCHANGED result
    ELSE /\ cpc' = "done"
         /\ result' = Raised(exc, msg)
         /\ UNCHANGED <<restVia, calls>>

\* generate_image line 59: enter the try block and call _generate_image_sdk
GenerateImage ==
    /\ cpc = "call"
    /\ cpc' = "sdk_import"
    /\ calls' = Append(calls, Call("_generate_image_sdk", args.model, args.prompt,
                                   args.inline_files))
    /\ UNCHANGED <<sdkImport, typesOk, pilOk, args, contents, sdkRaw, restVia, requests,
                   sdkRet, restRet, restParsed, result>>
    /\ UNCHANGED <<xvars, rvars, nvars>>

\* _generate_image_sdk lines 80-82: from google import genai; genai.Client(...)
SdkImport ==
    /\ cpc = "sdk_import"
    /\ IF sdkImport = "ok"
       THEN /\ cpc' = "sdk_contents"
            /\ UNCHANGED <<restVia, calls, result>>
       ELSE RaiseInTry(sdkImport, GenericMsg(sdkImport))
    /\ UNCHANGED <<sdkImport, typesOk, pilOk, args, contents, sdkRaw, requests, sdkRet,
                   restRet, restParsed>>
    /\ UNCHANGED <<xvars, rvars, nvars>>

\* _generate_image_sdk lines 85-109: build contents, or hand over to REST when a
\* file can be attached neither as a PIL image nor as a bytes part
SdkContents ==
    /\ cpc = "sdk_contents"
    /\ IF \E i \in 1..Len(args.inline_files) : AttachKind(args.inline_files[i]) = "rest"
       THEN /\ cpc' = "rest"
            /\ restVia' = "inner"
            /\ calls' = Append(calls, Call("_generate_image_rest", args.model, args.prompt,
                                           args.inline_files))
            /\ UNCHANGED contents
       ELSE /\ cpc' = "sdk_generate"
            /\ contents' = <<[kind |-> "text", file |-> [mime_type |-> <<>>, data_b64 |-> args.prompt]]>>
                  \o [i \in 1..Len(args.inline_files) |->
                        [kind |-> AttachKind(args.inline_files[i]),
                         file |-> args.inline_files[i]]]
            /\ UNCHANGED <<restVia, calls>>
    /\ UNCHANGED <<sdkImport, typesOk, pilOk, args, sdkRaw, requests, sdkRet, restRet,
                   restParsed, result>>
    /\ UNCHANGED <<xvars, rvars, nvars>>

\* _generate_image_sdk lines 114-119: generate_content with the image-modality
\* config; any exception (the types import, the config, the request) is swallowed
SdkGenerate ==
    /\ cpc = "sdk_generate"
    /\ IF typesOk
       THEN \/ \E r \in SdkResponses :
                 /\ requests' = Append(requests,
                        Request("generate_content", ModelSdk(args.model), args.prompt,
                                args.inline_files, contents, TRUE, 0, TRUE, 0))
                 /\ sdkRaw' = r
                 /\ cpc' = "sdk_extract"
            \/ /\ requests' = Append(requests,
                        Request("generate_content", ModelSdk(args.model), args.prompt,
                                args.inline_files, contents, TRUE, 0, FALSE, 0))
               /\ cpc' = "sdk_generate_plain"
               /\ UNCHANGED sdkRaw
       ELSE /\ cpc' = "sdk_generate_plain"
            /\ UNCHANGED <<requests, sdkRaw>>
    /\ UNCHANGED <<sdkImport, typesOk, pilOk, args, contents, restVia, calls, sdkRet,
                   restRet, restParsed, result>>
    /\ UNCHANGED <<xvars, rvars, nvars>>

\* _generate_image_sdk line 120: generate_content again, without config
SdkGeneratePlain ==
    /\ cpc = "sdk_generate_plain"
    /\ \/ \E r \in SdkResponses :
            /\ requests' = Append(requests,
                   Request("generate_content", ModelSdk(args.model), args.prompt,
                           args.inline_files, contents, FALSE, 0, TRUE, 0))
            /\ sdkRaw' = r
            /\ cpc' = "sdk_extract"
            /\ UNCHANGED <<restVia, calls, result>>
       \/ /\ requests' = Append(requests,
                   Request("generate_content", ModelSdk(args.model), args.prompt,
                           args.inline_files, contents, FALSE, 0, FALSE, 0))
          /\ RaiseInTry("APIError", GenericMsg("APIError"))
          /\ UNCHANGED sdkRaw
    /\ UNCHANGED <<sdkImport, typesOk, pilOk, args, contents, sdkRet, restRet, restParsed>>
    /\ UNCHANGED <<xvars, rvars, nvars>>

\* _generate_image_sdk lines 123-144: typed scan first, the raw walk when it finds nothing
SdkExtract ==
    /\ cpc = "sdk_extract"
    /\ LET typed == TypedImages(sdkRaw.parts)
           images_b64 == IF typed = <<>> THEN _extract_images_b64(sdkRaw.raw) ELSE typed
       IN  sdkRet' = GeminiResponse(images_b64, sdkRaw.raw)
    /\ cpc' = "decide"
    /\ UNCHANGED <<sdkImport, typesOk, pilOk, args, contents, sdkRaw, restVia, calls,
                   requests, restRet, restParsed, result>>
    /\ UNCHANGED <<xvars, rvars, nvars>>

\* `if resp.images_b64 or not fallback_imagen_model` (line 60)
ReturnsPrimaryMut(rsp, fallback) == rsp.images # <<>>
ReturnsPrimary(rsp, fallback) == rsp.images # <<>> \/ fallback = <<>>

\* generate_image lines 60-63
Decide ==
    /\ cpc = "decide"
    /\ IF ReturnsPrimary(sdkRet, args.fallback)
       THEN /\ result' = sdkRet
            /\ cpc' = "done"
            /\ UNCHANGED calls
       ELSE /\ cpc' = "imagen"
            /\ calls' = Append(calls, Call("_generate_image_imagen_sdk", args.fallback,
                                           args.prompt, <<>>))
            /\ UNCHANGED result
    /\ UNCHANGED <<sdkImport, typesOk, pilOk, args, contents, sdkRaw, restVia, requests,
                   sdkRet, restRet, restParsed>>
    /\ UNCHANGED <<xvars, rvars, nvars>>

\* _generate_image_imagen_sdk lines 152-166
Imagen ==
    /\ cpc = "imagen"
    /\ LET c == calls[Len(calls)]
       IN  IF ~typesOk
           THEN /\ RaiseInTry("ImportError", GenericMsg("ImportError"))
                /\ UNCHANGED requests
           ELSE \/ \E r \in SdkResponses :
                     /\ requests' = Append(requests,
                            Request("generate_images", ModelSdk(c.model), c.prompt, c.files,
                                    <<>>, TRUE, 0, TRUE, 0))
                     /\ result' = GeminiResponse(_extract_images_b64(r.raw), r.raw)
                     /\ cpc' = "done"
                     /\ UNCHANGED <<restVia, calls>>
                \/ /\ requests' = Append(requests,
                            Request("generate_images", ModelSdk(c.model), c.prompt, c.files,
                                    <<>>, TRUE, 0, FALSE, 0))
                   /\ RaiseInTry("APIError", GenericMsg("APIError"))
    /\ UNCHANGED <<sdkImport, typesOk, pilOk, args, contents, sdkRaw, sdkRet, restRet,
                   restParsed>>
    /\ UNCHANGED <<xvars, rvars, nvars>>

\* what _generate_image_rest does with the outcome of requests.post (lines 185-197)
RestReturn(o) ==
    IF o.status = 0 THEN Raised("ConnectionError", GenericMsg("ConnectionError"))
    ELSE IF Is404(o.status) THEN Raised("RuntimeError", Remediation404)
    ELSE IF RaisesForStatus(o.status) THEN Raised("HTTPError", GenericMsg("HTTPError"))
    ELSE IF o.body.t = "absent" THEN Raised("JSONDecodeError", GenericMsg("JSONDecodeError"))
    ELSE GeminiResponse(_extract_images_b64(o.body), o.body)

\* _generate_image_rest lines 175-197, and the return to its caller
Rest ==
    /\ cpc = "rest"
    /\ \E o \in RestOutcomes :
         LET c == calls[Len(calls)]
             ret == RestReturn(o)
         IN  /\ requests' = Append(requests,
                    Request("rest.post", c.model, c.prompt, c.files,
                            RestParts(c.prompt, c.files), FALSE, DefaultTimeout,
                            o.status = 200, o.status))
             /\ restRet' = ret
             /\ restParsed' = (ret.kind = "response")
             /\ IF restVia = "outer"
                THEN /\ result' = ret
                     /\ cpc' = "done"
                     /\ UNCHANGED <<sdkRet, restVia, calls>>
                ELSE IF ret.kind = "error"
                     THEN /\ RaiseInTry(ret.exc, ret.msg)
                          /\ UNCHANGED sdkRet
                     ELSE /\ sdkRet' = ret
                          /\ cpc' = "decide"
                          /\ UNCHANGED <<restVia, calls, result>>
    /\ UNCHANGED <<sdkImport, typesOk, pilOk, args, contents, sdkRaw>>
    /\ UNCHANGED <<xvars, rvars, nvars>>

NextClient ==
    \/ GenerateImage
    \/ SdkImport
    \/ SdkContents
    \/ SdkGenerate
    \/ SdkGeneratePlain
    \/ SdkExtract
    \/ Decide
    \/ Imagen
    \/ Rest

SpecClient == InitClient /\ [][NextClient]_vars

FallbackCalls == { i \in DOMAIN calls : calls[i].fn = "_generate_image_imagen_sdk" }
FallbackRequests == { i \in DOMAIN requests : requests[i].api = "generate_images" }

\* C4: the fallback model is requested iff _generate_image_sdk returned a response
\* with zero images and a fallback model is configured; the fallback call and
\* request carry the prompt and no attachment; when generate_image succeeds
\* without the fallback, it returns the response of _generate_image_sdk unchanged.
C4_ModelFallback ==
    /\ cpc \in {"imagen", "done"} =>
          ((FallbackCalls # {}) <=>
               (sdkRet.kind = "response" /\ sdkRet.images = <<>> /\ args.fallback # <<>>))
    /\ Cardinality(FallbackCalls) <= 1
    /\ \A i \in FallbackCalls :
          calls[i].model = args.fallback /\ calls[i].prompt = args.prompt
          /\ calls[i].files = <<>>
    /\ FallbackRequests # {} => FallbackCalls # {}
    /\ \A i \in FallbackRequests :
          /\ requests[i].model = ModelSdk(args.fallback)
          /\ requests[i].prompt = args.prompt
          /\ requests[i].files = <<>>
          /\ requests[i].payload = <<>>
    /\ (cpc = "done" /\ result.kind = "response" /\ FallbackCalls = {}
            /\ sdkRet.kind = "response") => result = sdkRet

C4_Witness ==
    /\ cpc = "done"
    /\ FallbackRequests # {}
    /\ args.inline_files # <<>>
    /\ result.kind = "response"
    /\ result.images # <<>>

PrimaryRequests ==
    { i \in DOMAIN requests : requests[i].api \in {"generate_content", "rest.post"} }

\* C5: within one generate_image call the primary generation request is issued at
\* most once, nothing is issued after a request failed, and the only possible
\* second request is the single model-fallback attempt.
C5_NoRetry ==
    /\ Cardinality(PrimaryRequests) <= 1
    /\ \A i \in DOMAIN requests : ~requests[i].ok => i = Len(requests)
    /\ Len(requests) <= 2
    /\ Len(requests) = 2 => requests[2].api = "generate_images"

RestRequests == { i \in DOMAIN requests : requests[i].api = "rest.post" }

\* C6: a 404 response on the REST path makes the call fail with an error whose
\* message contains the model-selection remediation text; no GeminiResponse is
\* returned and the body is not parsed for images.
C6_Rest404 ==
    \A i \in RestRequests :
        requests[i].status = 404 =>
            /\ restRet.kind = "error"
            /\ RemediationText \in Range(restRet.msg)
            /\ ~restParsed
            /\ cpc = "done"
            /\ result = restRet

C6_Witness ==
    /\ cpc = "done"
    /\ \E i \in RestRequests : requests[i].status = 404
    /\ restVia = "outer"
    /\ result.exc = "RuntimeError"

(***************************************************************************)
(* RenderService.render_all, run by a Worker started from MainWindow       *)
(***************************************************************************)
MaxCalls == 2      \* most camera angles in a job
MaxRooms == 2      \* most rooms in a job
MaxImages == 2     \* most image payloads in one response

Alnum == {"a", "b", "K", "L", "R", "r", "o", "m"}
Placeholder == <<"r", "o", "o", "m">>

\* ch if ch.isalnum() or ch in {"-", "_"} else "_"
SafeChar(ch) == IF ch \in Alnum \/ ch \in {"-", "_"} THEN ch ELSE "_"

\* str.strip("_")
RECURSIVE LStrip(_), RStrip(_)
LStrip(s) == IF s # <<>> /\ Head(s) = "_" THEN LStrip(Tail(s)) ELSE s
RStrip(s) == IF s # <<>> /\ s[Len(s)] = "_" THEN RStrip(SubSeq(s, 1, Len(s) - 1)) ELSE s

\* str.strip("_") applied to s instead of to the joined characters
_safeMut(s) ==
    LET mapped == [i \in DOMAIN RStrip(LStrip(s)) |-> SafeChar(RStrip(LStrip(s))[i])]
    IN  IF mapped = <<>> THEN Placeholder ELSE mapped
_safe(s) ==
    LET stripped == RStrip(LStrip([i \in DOMAIN s |-> SafeChar(s[i])]))
    IN  IF stripped = <<>> THEN Placeholder ELSE stripped

\* pathlib: the components of a relative path string
RECURSIVE PathParts(_, _)
PathParts(s, cur) ==
    IF s = <<>> THEN (IF cur = <<>> THEN <<>> ELSE <<cur>>)
    ELSE IF Head(s) = "/" THEN (IF cur = <<>> THEN <<>> ELSE <<cur>>) \o PathParts(Tail(s), <<>>)
    ELSE PathParts(Tail(s), Append(cur, Head(s)))

\* out_dir / name
Join(dir, name) == dir \o PathParts(name, <<>>)

\* the directories mkdir(parents=True, exist_ok=True) makes sure exist
Ancestors(dir) == { SubSeq(dir, 1, n) : n \in 0..Len(dir) }

Parent(path) == SubSeq(path, 1, Len(path) - 1)

ExteriorDir == << <<"exterior">> >>
\* self.output_dir / "interior" / _safe(room.room_name)
RoomDir(room_name) == << <<"interior">>, _safe(room_name) >>

\* f"{angle.name}_debug.json"
DebugName(angle_name) == angle_name \o <<"_debug.json">>

\* f"{_safe(stem)}_{i}.png"
ImageNameMut(stem, i) == _safe(stem) \o <<"_", ToString(i - 1), ".png">>
ImageName(stem, i) == _safe(stem) \o <<"_", ToString(i), ".png">>

\* base64.b64decode accepts what b64encode produced
B64Valid(p) == p # <<>> /\ Head(p) = "b64"

\* _write_debug: mkdir, then write_text; write_text raises when the file's
\* directory does not exist
WriteDebugOk(ds, out_dir, filename) ==
    Parent(Join(out_dir, filename)) \in ds \cup Ancestors(out_dir)

\* _write_images: the paths written before the loop ends or b64decode raises
RECURSIVE ImagePaths(_, _, _, _)
ImagePaths(images_b64, out_dir, stem, i) ==
    IF i > Len(images_b64) \/ ~B64Valid(images_b64[i]) THEN <<>>
    ELSE <<Join(out_dir, ImageName(stem, i))>> \o ImagePaths(images_b64, out_dir, stem, i + 1)

WriteImagesOk(images_b64) == \A i \in DOMAIN images_b64 : B64Valid(images_b64[i])

\* jobs
AngleNames == { <<"a">>, <<"a", " ", "b">>, <<"a", "/", "b">> }
RoomNames == { <<"K">>, <<"L", " ", "R">> }
AngleLists == UNION { [1..n -> AngleNames] : n \in 0..MaxCalls }
Rooms == [room_name : RoomNames, angles : AngleLists]
\* lists of at most n rooms holding at most c camera angles in all
RECURSIVE RoomLists(_, _)
RoomLists(n, c) ==
    IF n = 0 THEN { <<>> }
    ELSE { <<>> } \cup
         UNION { { <<r>> \o rest : rest \in RoomLists(n - 1, c - Len(r.angles)) } :
                   r \in { room \in Rooms : Len(room.angles) <= c } }

Jobs ==
    UNION { { [exterior |-> e, rooms |-> rs] :
                rs \in RoomLists(MaxRooms, MaxCalls - Len(e)) } : e \in AngleLists }

Payload(i) == B64Encode(<<ToString(i)>>)
BadPayload == <<"%">>
\* images_b64 of a response: up to MaxImages payloads, or one that does not decode
ImageLists ==
    { [i \in 1..n |-> Payload(i)] : n \in 0..MaxImages } \cup { <<Payload(1), BadPayload>> }

LogLine(tag, arg) == [tag |-> tag, arg |-> arg]
Box(kind, arg) == [kind |-> kind, arg |-> arg]

\* for angle in job.exterior.camera_angles / for angle in room.camera_angles
RECURSIVE Dedup(_)
Dedup(q) ==
    IF q = <<>> THEN <<>>
    ELSE LET d == Dedup(SubSeq(q, 1, Len(q) - 1))
         IN  IF q[Len(q)] \in Range(d) THEN d ELSE Append(d, q[Len(q)])
ScopeAnglesMut(j, sc) == Dedup(IF sc = 0 THEN j.exterior ELSE j.rooms[sc].angles)
ScopeAngles(j, sc) == IF sc = 0 THEN j.exterior ELSE j.rooms[sc].angles

GenCall(j, sc, angle) ==
    [scope |-> IF sc = 0 THEN "exterior" ELSE "room",
     scope_name |-> IF sc = 0 THEN <<"exterior">> ELSE j.rooms[sc].room_name,
     angle |-> angle]

ScopeDir(j, sc) == IF sc = 0 THEN ExteriorDir ELSE RoomDir(j.rooms[sc].room_name)

\* the part of the state render_all does not touch
GuiVars == <<apiKey, clicked, worker, signals, generate_btn, log, boxes>>

InitRender ==
    /\ job \in Jobs
    /\ apiKey \in { <<>>, <<"k">> }
    /\ clicked = FALSE
    /\ rpc = "idle"
    /\ scope = 0
    /\ ai = 1
    /\ resp = <<>>
    /\ genCalls = <<>>
    /\ responses = <<>>
    /\ handled = 0
    /\ dirs = {}
    /\ fs = {}
    /\ writes = <<>>
    /\ written = <<>>
    /\ renderRet = NoOutput
    /\ worker = "none"
    /\ signals = <<>>
    /\ generate_btn = TRUE
    /\ log = <<>>
    /\ boxes = <<>>
    /\ IdleClient
    /\ doc = JNull /\ xout = <<>> /\ xpc = "idle"
    /\ IdleNew

\* MainWindow.on_generate (one click of 'Generate renders')
OnGenerate ==
    /\ ~clicked
    /\ generate_btn
    /\ clicked' = TRUE
    /\ IF apiKey = <<>>
       THEN /\ boxes' = Append(boxes, Box("warning", << <<"Missing API key">> >>))
            /\ UNCHANGED <<rpc, worker, generate_btn, log>>
       ELSE /\ generate_btn' = FALSE
            /\ log' = Append(log, LogLine("Starting render job", <<>>))
            /\ worker' = "running"
            /\ rpc' = "start"
            /\ UNCHANGED boxes
    /\ UNCHANGED <<job, apiKey, scope, ai, resp, genCalls, responses, handled, dirs, fs,
                   writes, written, renderRet, signals>>
    /\ UNCHANGED <<xvars, cvars, nvars>>

\* render_all lines 32-33
RenderStart ==
    /\ rpc = "start"
    /\ dirs' = dirs \cup Ancestors(<<>>)
    /\ written' = <<>>
    /\ scope' = 0
    /\ ai' = 1
    /\ rpc' = "loop"
    /\ UNCHANGED <<job, resp, genCalls, responses, handled, fs, writes, renderRet>>
    /\ UNCHANGED GuiVars
    /\ UNCHANGED <<xvars, cvars, nvars>>

\* render_all lines 38-49 / 58-69: build the prompt and call generate_image
IssueCall ==
    /\ rpc = "loop"
    /\ ai <= Len(ScopeAngles(job, scope))
    /\ genCalls' = Append(genCalls, GenCall(job, scope, ScopeAngles(job, scope)[ai]))
    /\ rpc' = "waiting"
    /\ UNCHANGED <<job, scope, ai, resp, responses, handled, dirs, fs, writes, written,
                   renderRet>>
    /\ UNCHANGED GuiVars
    /\ UNCHANGED <<xvars, cvars, nvars>>

\* generate_image returns a GeminiResponse or raises
CallReturns ==
    /\ rpc = "waiting"
    /\ \/ \E imgs \in ImageLists :
            /\ resp' = imgs
            /\ responses' = Append(responses, imgs)
            /\ rpc' = "write"
            /\ UNCHANGED renderRet
       \/ /\ rpc' = "failed"
          /\ renderRet' = RenderRaised(<<"APIError">>)
          /\ UNCHANGED <<resp, responses>>
    /\ UNCHANGED <<job, scope, ai, genCalls, handled, dirs, fs, writes, written>>
    /\ UNCHANGED GuiVars
    /\ UNCHANGED <<xvars, cvars, nvars>>

\* render_all lines 50-52 / 70-73: _write_debug when there is no image, then
\* written += _write_images(...)
WriteOutput ==
    /\ rpc = "write"
    /\ LET name == ScopeAngles(job, scope)[ai]
           out_dir == ScopeDir(job, scope)
           debug == Join(out_dir, DebugName(name))
           paths == ImagePaths(resp, out_dir, name, 1)
       IN  /\ dirs' = dirs \cup Ancestors(out_dir)
           /\ IF resp = <<>> /\ ~WriteDebugOk(dirs, out_dir, DebugName(name))
              THEN /\ rpc' = "failed"
                   /\ renderRet' = RenderRaised(<<"FileNotFoundError">>)
                   /\ UNCHANGED <<fs, writes, written, handled, ai>>
              ELSE /\ fs' = fs \cup (IF resp = <<>> THEN {debug} ELSE {})
                               \cup Range(paths)
                   /\ writes' = writes \o (IF resp = <<>> THEN <<debug>> ELSE <<>>) \o paths
                   /\ IF WriteImagesOk(resp)
                      THEN /\ written' = written \o paths
                           /\ handled' = handled + 1
                           /\ ai' = ai + 1
                           /\ rpc' = "loop"
                           /\ UNCHANGED renderRet
                      ELSE /\ rpc' = "failed"
                           /\ renderRet' = RenderRaised(<<"binascii.Error">>)
                           /\ UNCHANGED <<written, handled, ai>>
    /\ UNCHANGED <<job, scope, resp, genCalls, responses>>
    /\ UNCHANGED GuiVars
    /\ UNCHANGED <<xvars, cvars, nvars>>

\* the exterior loop or a room's loop is exhausted: go on to the next room
NextScope ==
    /\ rpc = "loop"
    /\ ai > Len(ScopeAngles(job, scope))
    /\ scope < Len(job.rooms)
    /\ scope' = scope + 1
    /\ ai' = 1
    /\ UNCHANGED <<job, rpc, resp, genCalls, responses, handled, dirs, fs, writes, written,
                   renderRet>>
    /\ UNCHANGED GuiVars
    /\ UNCHANGED <<xvars, cvars, nvars>>

\* render_all line 75
ReturnOutput ==
    /\ rpc = "loop"
    /\ ai > Len(ScopeAngles(job, scope))
    /\ scope = Len(job.rooms)
    /\ rpc' = "returned"
    /\ renderRet' = RenderOutput(written)
    /\ UNCHANGED <<job, scope, ai, resp, genCalls, responses, handled, dirs, fs, writes,
                   written>>
    /\ UNCHANGED GuiVars
    /\ UNCHANGED <<xvars, cvars, nvars>>

\* Worker.run lines 24-29: the signal emitted for what fn() returned or raised
WorkerSignalMut(ret) == [sig |-> "finished", ret |-> ret]
WorkerSignal(ret) ==
    IF ret.kind = "output" THEN [sig |-> "finished", ret |-> ret]
    ELSE [sig |-> "error", ret |-> ret]

WorkerRun ==
    /\ worker = "running"
    /\ rpc \in {"returned", "failed"}
    /\ signals' = Append(signals, WorkerSignal(renderRet))
    /\ worker' = "finished"
    /\ UNCHANGED <<job, apiKey, clicked, rpc, scope, ai, resp, genCalls, responses, handled,
                   dirs, fs, writes, written, renderRet, generate_btn, log, boxes>>
    /\ UNCHANGED <<xvars, cvars, nvars>>

\* the log lines of MainWindow._on_done
DoneLines(files) ==
    <<LogLine("Done. Wrote", << <<ToString(Len(files))>> >>)>>
    \o (IF Len(files) = 0 THEN <<LogLine("No images were returned by the model.", <<>>)>>
        ELSE <<>>)
    \o (IF files # <<>>
        THEN <<LogLine("Sample outputs:", <<>>)>>
             \o [i \in 1..(IF Len(files) < 5 THEN Len(files) ELSE 5) |-> LogLine("-", files[i])]
        ELSE <<>>)

\* MainWindow._on_done (lines 155-170)
OnDone ==
    /\ signals # <<>>
    /\ Head(signals).sig = "finished"
    /\ signals' = Tail(signals)
    /\ generate_btn' = TRUE
    /\ log' = log \o DoneLines(Head(signals).ret.written)
    /\ boxes' = Append(boxes, Box("information",
                     << <<ToString(Len(Head(signals).ret.written))>> >>))
    /\ UNCHANGED <<job, apiKey, clicked, rpc, scope, ai, resp, genCalls, responses, handled,
                   dirs, fs, writes, written, renderRet, worker>>
    /\ UNCHANGED <<xvars, cvars, nvars>>

\* MainWindow._on_error (lines 172-175)
OnError ==
    /\ signals # <<>>
    /\ Head(signals).sig = "error"
    /\ signals' = Tail(signals)
    /\ generate_btn' = TRUE
    /\ log' = Append(log, LogLine("ERROR:", <<Head(signals).ret.msg>>))
    /\ boxes' = Append(boxes, Box("critical", <<Head(signals).ret.msg>>))
    /\ UNCHANGED <<job, apiKey, clicked, rpc, scope, ai, resp, genCalls, responses, handled,
                   dirs, fs, writes, written, renderRet, worker>>
    /\ UNCHANGED <<xvars, cvars, nvars>>

NextRender ==
    \/ OnGenerate
    \/ RenderStart
    \/ IssueCall
    \/ CallReturns
    \/ WriteOutput
    \/ NextScope
    \/ ReturnOutput
    \/ WorkerRun
    \/ OnDone
    \/ OnError

SpecRender == InitRender /\ [][NextRender]_vars

\* the calls the contract asks for: every exterior angle in declaration order,
\* then every angle of every room, rooms and angles in declaration order
ExteriorPlan(j) ==
    [i \in 1..Len(j.exterior) |->
        [scope |-> "exterior", scope_name |-> <<"exterior">>, angle |-> j.exterior[i]]]
RoomPlan(room) ==
    [i \in 1..Len(room.angles) |->
        [scope |-> "room", scope_name |-> room.room_name, angle |-> room.angles[i]]]
RECURSIVE RoomsPlan(_)
RoomsPlan(rooms) ==
    IF rooms = <<>> THEN <<>> ELSE RoomPlan(Head(rooms)) \o RoomsPlan(Tail(rooms))
Plan(j) == ExteriorPlan(j) \o RoomsPlan(j.rooms)

IsPrefix(p, q) == Len(p) <= Len(q) /\ SubSeq(q, 1, Len(p)) = p

\* C7: render_all issues one generate_image call per camera angle (duplicates
\* included), exterior angles first, then room by room, in declaration order; a
\* call is issued only when every earlier call has returned and its output has
\* been written.
C7_SequentialInOrder ==
    /\ [](/\ IsPrefix(genCalls, Plan(job))
          /\ rpc = "returned" => genCalls = Plan(job)
          /\ rpc \in {"waiting", "write"} => Len(genCalls) = handled + 1
          /\ rpc \in {"loop", "returned"} => Len(genCalls) = handled)
    /\ [][Len(genCalls') > Len(genCalls) =>
              /\ Len(genCalls') = Len(genCalls) + 1
              /\ handled = Len(genCalls)
              /\ Len(responses) = Len(genCalls)]_vars

C7_Witness ==
    /\ rpc = "returned"
    /\ Len(genCalls) = MaxCalls
    /\ Len(job.exterior) = 1
    /\ Len(job.rooms) = 2
    /\ Len(job.rooms[2].angles) = 1
    /\ job.rooms[2].angles[1] = job.exterior[1]

\* <scope_path> of a call
ScopePath(c) ==
    IF c.scope = "exterior" THEN << <<"exterior">> >>
    ELSE << <<"interior">>, _safe(c.scope_name) >>

\* <scope_path>/<sanitized_angle_name>_1.png .. _k.png
ExpectedFiles(c, k) ==
    [i \in 1..k |-> Append(ScopePath(c), _safe(c.angle) \o <<"_", ToString(i), ".png">>)]

RECURSIVE ExpectedWritten(_)
ExpectedWritten(n) ==
    IF n = 0 THEN <<>>
    ELSE ExpectedWritten(n - 1) \o ExpectedFiles(genCalls[n], Len(responses[n]))

RECURSIVE TotalPayloads(_)
TotalPayloads(n) == IF n = 0 THEN 0 ELSE TotalPayloads(n - 1) + Len(responses[n])

\* C8: on a run that completes, the files <scope_path>/<sanitized_angle>_1.png ..
\* _k.png exist for every call that returned k >= 1 payloads, and written_files is
\* the concatenation of those paths in call order.
C8_WrittenFiles ==
    rpc = "returned" =>
        /\ Len(responses) = Len(genCalls)
        /\ renderRet.kind = "output"
        /\ renderRet.written = ExpectedWritten(Len(genCalls))
        /\ Range(ExpectedWritten(Len(genCalls))) \subseteq fs
        /\ Len(renderRet.written) = TotalPayloads(Len(genCalls))

C8_Witness ==
    /\ rpc = "returned"
    /\ Len(genCalls) = 2
    /\ genCalls[1].scope = "exterior"
    /\ genCalls[1].angle = <<"a", " ", "b">>
    /\ genCalls[2].scope = "room"
    /\ Len(responses[1]) = 1
    /\ Len(responses[2]) = MaxImages
    /\ Len(renderRet.written) = 1 + MaxImages

\* <scope_path>/<sanitized_angle_name>_debug.json
SafeDebugPath(c) == Append(ScopePath(c), _safe(c.angle) \o <<"_debug.json">>)

\* C9: for every call that returned zero payloads the raw response is written to
\* <scope_path>/<sanitized_angle_name>_debug.json, that file is not in
\* written_files, and the run goes on to the next angle.
C9_DebugFile ==
    \A i \in DOMAIN responses :
        responses[i] = <<>> =>
            /\ ~(rpc = "failed" /\ i = handled + 1)
            /\ i <= handled =>
                  /\ SafeDebugPath(genCalls[i]) \in fs
                  /\ SafeDebugPath(genCalls[i]) \notin Range(written)

ErrorLines == { i \in DOMAIN log : log[i].tag = "ERROR:" }
DoneLinesLogged == { i \in DOMAIN log : log[i].tag = "Done. Wrote" }
CriticalBoxes == { i \in DOMAIN boxes : boxes[i].kind = "critical" }

\* C10: once a call of the run has failed, render_all issues no further
\* generate_image call, writes no further file and returns no RenderOutput; the
\* files already written stay; the GUI gets the failure as one error message.
C10_FailureAborts ==
    /\ [][rpc = "failed" =>
              /\ rpc' = "failed"
              /\ genCalls' = genCalls
              /\ fs' = fs
              /\ writes' = writes
              /\ renderRet' = renderRet]_vars
    /\ [][fs \subseteq fs']_vars
    /\ [](rpc = "failed" =>
              /\ renderRet.kind = "error"
              /\ DoneLinesLogged = {}
              /\ \A i \in DOMAIN signals :
                    signals[i].sig = "error" /\ signals[i].ret = renderRet
              /\ Cardinality(ErrorLines) + Len(signals) = (IF worker = "finished" THEN 1 ELSE 0)
              /\ Cardinality(CriticalBoxes) = Cardinality(ErrorLines)
              /\ \A i \in ErrorLines : log[i].arg = <<renderRet.msg>>)

C10_Witness ==
    /\ rpc = "failed"
    /\ renderRet.msg = <<"APIError">>
    /\ Len(genCalls) = 1
    /\ Len(Plan(job)) = MaxCalls
    /\ worker = "finished"
    /\ signals = <<>>
    /\ Cardinality(ErrorLines) = 1
    /\ generate_btn

\* the guidance to pick a different model, logged by _on_done
GuidanceLines == { i \in DOMAIN log : log[i].tag = "No images were returned by the model." }

\* C13: a run that completes after at least one angle's call returned zero
\* image payloads is delivered through the completion handler, not the error
\* handler, and the log receives the guidance message
C13_ZeroImageWarning ==
    (/\ rpc = "returned"
     /\ \E i \in DOMAIN responses : responses[i] = <<>>
     /\ worker = "finished"
     /\ signals = <<>>)
    => /\ Cardinality(DoneLinesLogged) = 1
       /\ ErrorLines = {}
       /\ GuidanceLines # {}

NoDuplicates(q) == \A i, j \in DOMAIN q : i # j => q[i] # q[j]

\* C16: within one render_all run every path, image or debug file, is written
\* at most once and written_files holds no path twice
C16_NoOverwrite ==
    /\ NoDuplicates(writes)
    /\ NoDuplicates(written)

\* C14: every network request the client issues carries the client's
\* configured timeout budget
C14_TimeoutBounded ==
    \A i \in DOMAIN requests : requests[i].timeout = DefaultTimeout

(***************************************************************************)
(* SpecGui: the window's two buttons and the workers they start            *)
(***************************************************************************)
MaxClicks == 3

\* what client.list_models_rest returned: the decoded JSON body
ModelsReturn(models) == [kind |-> "output", models |-> models]
\* what it raised (requests.get or raise_for_status)
ModelsRaised(msg) == [kind |-> "error", msg |-> msg]

\* the outcomes of a worker's fn(), by what the worker runs
WorkerReturns(kind) ==
    IF kind = "render"
    THEN { RenderOutput(<<>>), RenderOutput(<< <<"o">> >>), RenderRaised(<<"APIError">>) }
    ELSE { ModelsReturn(<<>>), ModelsReturn(<< <<"m">> >>), ModelsRaised(<<"HTTPError">>) }

\* Worker(run): a new thread object, started at the end of the handler
NewWorker(kind) == [kind |-> kind, running |-> TRUE]

\* the state of one render run, which the window's handlers do not touch
RunVars == <<job, clicked, rpc, scope, ai, resp, genCalls, responses, handled, dirs, fs,
             writes, written, renderRet, worker, signals>>

InitGui ==
    /\ apiKey \in { <<>>, <<"k">> }
    /\ generate_btn = TRUE
    /\ list_models_btn = TRUE
    /\ log = <<>>
    /\ boxes = <<>>
    /\ workers = <<>>
    /\ workerRef = 0
    /\ pending = <<>>
    /\ clicks = 0
    /\ crashed = FALSE
    /\ job = [exterior |-> <<>>, rooms |-> <<>>]
    /\ clicked = FALSE
    /\ rpc = "idle"
    /\ scope = 0
    /\ ai = 1
    /\ resp = <<>>
    /\ genCalls = <<>>
    /\ responses = <<>>
    /\ handled = 0
    /\ dirs = {}
    /\ fs = {}
    /\ writes = <<>>
    /\ written = <<>>
    /\ renderRet = NoOutput
    /\ worker = "none"
    /\ signals = <<>>
    /\ IdleClient
    /\ doc = JNull /\ xout = <<>> /\ xpc = "idle"
    /\ IdleSafe
    /\ IdleInterior

\* MainWindow.on_generate (lines 91-125): a click on the enabled 'Generate renders'
on_generate ==
    /\ ~crashed
    /\ clicks < MaxClicks
    /\ generate_btn
    /\ clicks' = clicks + 1
    /\ IF apiKey = <<>>
       THEN /\ boxes' = Append(boxes, Box("warning", << <<"Missing API key">> >>))
            /\ UNCHANGED <<generate_btn, log, workers, workerRef>>
       ELSE /\ generate_btn' = FALSE
            /\ log' = Append(log, LogLine("Starting render job", <<>>))
            /\ workers' = Append(workers, NewWorker("render"))
            /\ workerRef' = Len(workers) + 1
            /\ UNCHANGED boxes
    /\ UNCHANGED <<apiKey, list_models_btn, pending, crashed>>
    /\ UNCHANGED <<RunVars, xvars, cvars, svars, ivars>>

\* MainWindow.on_list_models (lines 127-143): a click on the enabled
\* 'List available models'
on_list_models ==
    /\ ~crashed
    /\ clicks < MaxClicks
    /\ list_models_btn
    /\ clicks' = clicks + 1
    /\ IF apiKey = <<>>
       THEN /\ boxes' = Append(boxes, Box("warning", << <<"Missing API key">> >>))
            /\ UNCHANGED <<list_models_btn, log, workers, workerRef>>
       ELSE /\ log' = Append(log, LogLine("Fetching available models", <<>>))
            /\ list_models_btn' = FALSE
            /\ workers' = Append(workers, NewWorker("models"))
            /\ workerRef' = Len(workers) + 1
            /\ UNCHANGED boxes
    /\ UNCHANGED <<apiKey, generate_btn, pending, crashed>>
    /\ UNCHANGED <<RunVars, xvars, cvars, svars, ivars>>

\* Worker.run (lines 24-28) of worker w: fn() returns or raises, the signal is
\* queued for the window, the thread ends. A worker the window no longer
\* references is destroyed as run() returns, while Qt still counts the thread
\* as running: Qt aborts the process or not, depending on timing.
Worker_run(w) ==
    /\ ~crashed
    /\ workers[w].running
    /\ \E ret \in WorkerReturns(workers[w].kind) :
         pending' = Append(pending, [w |-> w, kind |-> workers[w].kind,
                                     signal |-> WorkerSignal(ret)])
    /\ workers' = [workers EXCEPT ![w].running = FALSE]
    /\ crashed' \in (IF workerRef = w THEN {FALSE} ELSE {FALSE, TRUE})
    /\ UNCHANGED <<apiKey, generate_btn, list_models_btn, log, boxes, workerRef, clicks>>
    /\ UNCHANGED <<RunVars, xvars, cvars, svars, ivars>>

\* the log lines of MainWindow._on_models
ModelsLines(models) ==
    <<LogLine("Found", << <<ToString(Len(models))>> >>)>>
    \o [i \in 1..(IF Len(models) < 25 THEN Len(models) ELSE 25) |-> LogLine("-", models[i])]

\* MainWindow._on_models (lines 145-153): slot of a models worker's finished signal
_on_models ==
    /\ ~crashed
    /\ pending # <<>>
    /\ Head(pending).kind = "models"
    /\ Head(pending).signal.sig = "finished"
    /\ pending' = Tail(pending)
    /\ list_models_btn' = TRUE
    /\ log' = log \o ModelsLines(Head(pending).signal.ret.models)
    /\ boxes' = Append(boxes, Box("information",
                     << <<ToString(Len(Head(pending).signal.ret.models))>> >>))
    /\ UNCHANGED <<apiKey, generate_btn, workers, workerRef, clicks, crashed>>
    /\ UNCHANGED <<RunVars, xvars, cvars, svars, ivars>>

\* MainWindow._on_done (lines 155-170): slot of a render worker's finished signal
_on_done ==
    /\ ~crashed
    /\ pending # <<>>
    /\ Head(pending).kind = "render"
    /\ Head(pending).signal.sig = "finished"
    /\ pending' = Tail(pending)
    /\ generate_btn' = TRUE
    /\ log' = log \o DoneLines(Head(pending).signal.ret.written)
    /\ boxes' = Append(boxes, Box("information",
                     << <<ToString(Len(Head(pending).signal.ret.written))>> >>))
    /\ UNCHANGED <<apiKey, list_models_btn, workers, workerRef, clicks, crashed>>
    /\ UNCHANGED <<RunVars, xvars, cvars, svars, ivars>>

\* MainWindow._on_error (lines 172-175): slot of every worker's error signal
_on_error ==
    /\ ~crashed
    /\ pending # <<>>
    /\ Head(pending).signal.sig = "error"
    /\ pending' = Tail(pending)
    /\ generate_btn' = TRUE
    /\ log' = Append(log, LogLine("ERROR:", <<Head(pending).signal.ret.msg>>))
    /\ boxes' = Append(boxes, Box("critical", <<Head(pending).signal.ret.msg>>))
    /\ UNCHANGED <<apiKey, list_models_btn, workers, workerRef, clicks, crashed>>
    /\ UNCHANGED <<RunVars, xvars, cvars, svars, ivars>>

NextGui ==
    \/ on_generate
    \/ on_list_models
    \/ \E w \in DOMAIN workers : Worker_run(w)
    \/ _on_models
    \/ _on_done
    \/ _on_error

SpecGui == InitGui /\ [][NextGui]_vars

Running == { w \in DOMAIN workers : workers[w].running }

\* C11: at most one background worker runs at a time, and the window's single
\* worker reference is the running one, under every interleaving of clicks on
\* the two buttons and deliveries of results
C11_OneWorker ==
    /\ Cardinality(Running) <= 1
    /\ \A w \in Running : workerRef = w

\* a worker is in flight from its start until its result is handled by the window
InFlight(kind) ==
    { w \in DOMAIN workers :
        /\ workers[w].kind = kind
        /\ \/ workers[w].running
           \/ \E i \in DOMAIN pending : pending[i].w = w }

\* C15: 'Generate renders' is never enabled while a render worker is in flight,
\* whatever 'List available models' clicks and results interleave with the run
C15_GenerateDisabledInFlight ==
    (~crashed /\ InFlight("render") # {}) => ~generate_btn

\* C19: once the worker a button started has reported its result, finished or
\* error, that button is enabled again (the process still running)
C19_ReEnabled ==
    ~crashed =>
        /\ (InFlight("models") = {} => list_models_btn)
        /\ (InFlight("render") = {} => generate_btn)

(***************************************************************************)
(* SpecSafe: _safe applied to its own result                               *)
(***************************************************************************)
MaxLen == 4

\* characters of the strings given to _safe: alphanumeric ones, the two kept
\* punctuation characters, and ones that are replaced
SafeAlphabet == {"a", "R", "-", "_", " ", "/"}
SafeInputs == UNION { [1..n -> SafeAlphabet] : n \in 0..MaxLen }

InitSafe ==
    /\ safeIn \in SafeInputs
    /\ safeOnce = <<>>
    /\ safeTwice = <<>>
    /\ spc = 0
    /\ IdleClient
    /\ IdleRender
    /\ doc = JNull /\ xout = <<>> /\ xpc = "idle"
    /\ IdleGui
    /\ IdleInterior

\* _safe(x)
SafeFirst ==
    /\ spc = 0
    /\ safeOnce' = _safe(safeIn)
    /\ spc' = 1
    /\ UNCHANGED <<safeIn, safeTwice>>
    /\ UNCHANGED <<xvars, cvars, rvars, gvars, ivars>>

\* _safe(_safe(x))
SafeSecond ==
    /\ spc = 1
    /\ safeTwice' = _safe(safeOnce)
    /\ spc' = 2
    /\ UNCHANGED <<safeIn, safeOnce>>
    /\ UNCHANGED <<xvars, cvars, rvars, gvars, ivars>>

NextSafe ==
    \/ SafeFirst
    \/ SafeSecond

SpecSafe == InitSafe /\ [][NextSafe]_vars

\* every character of s is one _safe replaces or strips
AllReplaced(s) == \A i \in DOMAIN s : SafeChar(s[i]) = "_"

\* C12: _safe(_safe(x)) = _safe(x) for every string x; the empty string and
\* strings whose characters are all replaced give the placeholder, which _safe
\* leaves as it is
C12_SafeIdempotent ==
    /\ spc = 2 => safeTwice = safeOnce
    /\ (spc >= 1 /\ AllReplaced(safeIn)) => safeOnce = Placeholder

C12_Witness ==
    /\ spc = 2
    /\ safeIn = <<" ", "a", "/", "_">>
    /\ safeOnce = <<"a">>
    /\ safeTwice = <<"a">>

(***************************************************************************)
(* SpecInterior: the room list of the Interior tab                         *)
(***************************************************************************)
MaxOps == 5

\* {"files": [], "finishes": "", "angles": []}
DefaultState == [files |-> <<>>, finishes |-> <<>>, angles |-> <<>>]

\* str.strip()
RECURSIVE StripLeft(_), StripRight(_)
StripLeft(s) == IF s # <<>> /\ Head(s) = " " THEN StripLeft(Tail(s)) ELSE s
StripRight(s) ==
    IF s # <<>> /\ s[Len(s)] = " " THEN StripRight(SubSeq(s, 1, Len(s) - 1)) ELSE s
Strip(s) == StripRight(StripLeft(s))

\* CameraAnglesTable.values: rows with a non-blank name, name and notes stripped
RECURSIVE values(_)
values(rows) ==
    IF rows = <<>> THEN <<>>
    ELSE (IF Strip(Head(rows)[1]) # <<>>
          THEN << <<Strip(Head(rows)[1]), Strip(Head(rows)[2])>> >>
          ELSE <<>>) \o values(Tail(rows))

\* RoomEditor.data
EditorData(ed) == [files |-> ed.files, finishes |-> ed.finishes, angles |-> values(ed.angles)]

\* what the user can put into the editor: files, finishes text, angle rows
Edits ==
    { [files |-> << <<"p">> >>, finishes |-> <<"w">>, angles |-> << << <<"a">>, <<>> >> >>],
      [files |-> <<>>, finishes |-> <<>>,
       angles |-> << << <<" ", "b">>, <<"n", " ">> >>, << <<" ">>, <<"x">> >> >>] }

\* default_name or f"Room {self.room_list.count() + 1}"
LivingRoom == <<"Living Room">>
RoomName(count) == <<"Room", ToString(count + 1)>>

\* self._rooms_state.get(name, {"files": [], "finishes": "", "angles": []})
StateGet(st, name) == IF name \in DOMAIN st THEN st[name] ELSE DefaultState

\* InteriorTab._save_current: the editor is stored under the text of
\* room_list.currentItem()
_save_current(list, cur, st, ed) ==
    IF cur = 0 THEN st ELSE (list[cur] :> EditorData(ed)) @@ st

\* InteriorTab._on_room_selected(current, previous), slot of currentItemChanged:
\* when it runs, room_list.currentItem() is already the new current item
_on_room_selected(list, cur, previous, st, ed) ==
    LET saved == IF previous THEN _save_current(list, cur, st, ed) ELSE st
    IN  [state |-> saved,
         editor |-> IF cur = 0 THEN ed ELSE StateGet(saved, list[cur])]

RemoveAt(q, i) == SubSeq(q, 1, i - 1) \o SubSeq(q, i + 1, Len(q))
Pop(st, name) == [k \in DOMAIN st \ {name} |-> st[k]]

\* InteriorTab.__init__ line 78: add_room(default_name="Living Room")
InitInterior ==
    /\ room_list = <<LivingRoom>>
    /\ current = 1
    /\ _rooms_state = (LivingRoom :> DefaultState)
    /\ editor = DefaultState
    /\ entered = <<DefaultState>>
    /\ reported = [valid |-> FALSE, rooms |-> <<>>]
    /\ ops = <<>>
    /\ IdleClient
    /\ IdleRender
    /\ doc = JNull /\ xout = <<>> /\ xpc = "idle"
    /\ IdleGui
    /\ IdleSafe

\* InteriorTab.add_room (lines 80-85), the 'Add room' button
add_room ==
    /\ Len(ops) < MaxOps
    /\ LET name == RoomName(Len(room_list))
           list == Append(room_list, name)
           st == (name :> DefaultState) @@ _rooms_state
           sel == _on_room_selected(list, Len(list), current # 0, st, editor)
       IN  /\ room_list' = list
           /\ current' = Len(list)
           /\ _rooms_state' = sel.state
           /\ editor' = sel.editor
    /\ entered' = Append(entered, DefaultState)
    /\ reported' = [valid |-> FALSE, rooms |-> <<>>]
    /\ ops' = Append(ops, "add_room")
    /\ UNCHANGED <<xvars, cvars, rvars, gvars, svars>>

\* InteriorTab.remove_room (lines 87-96), the 'Remove room' button.
\* takeItem of the current row makes the list pick a new current item first
\* (the row below, else the row above, else none) and emit currentItemChanged.
remove_room ==
    /\ Len(ops) < MaxOps
    /\ IF current = 0
       THEN UNCHANGED <<room_list, current, _rooms_state, editor, entered>>
       ELSE LET name == room_list[current]
                n == Len(room_list)
                nb == IF n = 1 THEN 0 ELSE IF current < n THEN current + 1 ELSE current - 1
                sel1 == _on_room_selected(room_list, nb, TRUE, _rooms_state, editor)
                list == RemoveAt(room_list, current)
                cur == IF n = 1 THEN 0 ELSE IF current < n THEN current ELSE current - 1
                st == Pop(sel1.state, name)
                sel2 == IF Len(list) > 0 /\ cur # 1
                        THEN _on_room_selected(list, 1, TRUE, st, sel1.editor)
                        ELSE [state |-> st, editor |-> sel1.editor]
            IN  /\ room_list' = list
                /\ current' = IF Len(list) > 0 THEN 1 ELSE 0
                /\ _rooms_state' = sel2.state
                /\ editor' = sel2.editor
                /\ entered' = RemoveAt(entered, current)
    /\ reported' = [valid |-> FALSE, rooms |-> <<>>]
    /\ ops' = Append(ops, "remove_room")
    /\ UNCHANGED <<xvars, cvars, rvars, gvars, svars>>

\* the user clicks another row of the list: currentItemChanged(current, previous)
SelectRoom(row) ==
    /\ Len(ops) < MaxOps
    /\ row # current
    /\ LET sel == _on_room_selected(room_list, row, current # 0, _rooms_state, editor)
       IN  /\ _rooms_state' = sel.state
           /\ editor' = sel.editor
    /\ current' = row
    /\ reported' = [valid |-> FALSE, rooms |-> <<>>]
    /\ ops' = Append(ops, "select")
    /\ UNCHANGED <<room_list, entered>>
    /\ UNCHANGED <<xvars, cvars, rvars, gvars, svars>>

\* the user changes the files, finishes and angle rows shown in the editor
EditRoom(ed) ==
    /\ Len(ops) < MaxOps
    /\ ed # editor
    /\ editor' = ed
    /\ entered' = IF current = 0 THEN entered
                  ELSE [entered EXCEPT ![current] = EditorData(ed)]
    /\ reported' = [valid |-> FALSE, rooms |-> <<>>]
    /\ ops' = Append(ops, "edit")
    /\ UNCHANGED <<room_list, current, _rooms_state>>
    /\ UNCHANGED <<xvars, cvars, rvars, gvars, svars>>

\* InteriorTab.data (lines 122-130)
data ==
    /\ ~reported.valid
    /\ LET st == _save_current(room_list, current, _rooms_state, editor)
       IN  /\ _rooms_state' = st
           /\ reported' =
                [valid |-> TRUE,
                 rooms |-> [i \in DOMAIN room_list |->
                              [name |-> room_list[i], state |-> StateGet(st, room_list[i])]]]
    /\ UNCHANGED <<room_list, current, editor, entered, ops>>
    /\ UNCHANGED <<xvars, cvars, rvars, gvars, svars>>

NextInterior ==
    \/ add_room
    \/ remove_room
    \/ \E row \in DOMAIN room_list : SelectRoom(row)
    \/ \E ed \in Edits : EditRoom(ed)
    \/ data

SpecInterior == InitInterior /\ [][NextInterior]_vars

\* C17: after any sequence of add-room, select-room and edit operations, data()
\* reports for each listed room exactly what was last entered while that room
\* was selected
C17_ReportsEntered ==
    (reported.valid /\ Range(ops) \subseteq {"add_room", "select", "edit"}) =>
        \A i \in DOMAIN room_list :
            reported.rooms[i] = [name |-> room_list[i], state |-> entered[i]]

\* C18: after any sequence of add_room and remove_room operations the listed
\* room names are pairwise distinct and every listed room has a state entry
C18_DistinctNames ==
    Range(ops) \subseteq {"add_room", "remove_room"} =>
        /\ \A i, j \in DOMAIN room_list : i # j => room_list[i] # room_list[j]
        /\ \A i \in DOMAIN room_list : room_list[i] \in DOMAIN _rooms_state

(***************************************************************************)
(* SpecExtract                                                             *)
(***************************************************************************)
InitExtract ==
    /\ doc \in Docs
    /\ xout = <<>>
    /\ xpc = "start"
    /\ IdleClient
    /\ IdleRender
    /\ IdleNew

Extract ==
    /\ xpc = "start"
    /\ xout' = _extract_images_b64(doc)
    /\ xpc' = "done"
    /\ UNCHANGED doc
    /\ UNCHANGED <<cvars, rvars, nvars>>

NextExtract == Extract

SpecExtract == InitExtract /\ [][NextExtract]_vars

\* C1: _extract_images_b64 returns one entry for each qualifying inline-data
\* member (either casing of the key, either casing of the mime field) and no
\* other entry.
C1_ExactlyQualifying ==
    xpc = "done" => BagOf(xout) = BagOf(QualifyingData(doc))

\* C2: the returned list is in document order: whenever the entries are the
\* qualifying ones, they appear in the order their data stands in the document.
C2_DocumentOrder ==
    (xpc = "done" /\ BagOf(xout) = BagOf(QualifyingData(doc)))
        => xout = QualifyingData(doc)

====
